---- MODULE Spec2Model ----
(***************************************************************************)
(* Model of infrastructure/glue-scripts/workflow_etl_template.py: one      *)
(* invocation of the Glue ETL stage script.  The script is a linear        *)
(* pipeline: resolve arguments, initialise the Spark/Glue context, read    *)
(* the input JSON dataset, add four metadata columns, write the output     *)
(* with mode('overwrite'), commit the job.                                 *)
(*                                                                         *)
(* DataFrames are modelled materialised (columns + rows); a stored object  *)
(* is a sequence of JSON records, each a function from the field names it  *)
(* carries to their values.  A JSON field whose value is null is the same  *)
(* row as one where the field is absent, so records carry non-null fields  *)
(* only.                                                                   *)
(***************************************************************************)
EXTENDS Bags, FiniteSets, Integers, Sequences, TLC

\* ------------------------------------------------------------------ bounds
\* largest number of records in a stored dataset
MaxRecords == 2
\* largest number of required keys that are absent or empty in an invocation
MaxDefects == 1

\* --------------------------------------------------------------- arguments
RequiredKeys ==
  {"JOB_NAME", "execution-id", "input-bucket", "input-key",
   "output-bucket", "output-key", "current-stage", "previous-stage"}

\* the values a well-formed invocation gives each key; ok is the output key
Nominal(ok) ==
  [k \in RequiredKeys |->
     CASE k = "JOB_NAME"       -> "job"
       [] k = "execution-id"   -> "e1"
       [] k = "input-bucket"   -> "b"
       [] k = "input-key"      -> "in.json"
       [] k = "output-bucket"  -> "b"
       [] k = "output-key"     -> ok
       [] k = "current-stage"  -> "s2"
       [] k = "previous-stage" -> "s1"]

\* output keys an invocation may name: a fresh location, or the input's own
OutputKeys == {"out.json", "in.json"}

\* sys.argv as the mapping of the --key value pairs it carries: the keys in
\* absent are not on the command line, the keys in empty carry ""
ArgvOf(ok, absent, empty) ==
  [k \in RequiredKeys \ absent |-> IF k \in empty THEN "" ELSE Nominal(ok)[k]]

Invocations ==
  {ArgvOf(ok, D \ E, E) :
     <<ok, D, E>> \in {t \in OutputKeys \X (SUBSET RequiredKeys) \X (SUBSET RequiredKeys) :
                         /\ t[3] \subseteq t[2]
                         /\ Cardinality(t[2]) <= MaxDefects}}

NoArgs == [k \in {} |-> ""]

\* mutant: only JOB_NAME is listed as required
ArgsCompleteLax(av) == "JOB_NAME" \in DOMAIN av

\* mutant: a required option must also carry a non-empty value
ArgsCompleteNonEmpty(av) ==
  /\ RequiredKeys \subseteq DOMAIN av
  /\ \A k \in RequiredKeys : av[k] # ""

\* getResolvedOptions(sys.argv, [...]): every listed option is required; a
\* value is any string, the empty string included
ArgsComplete(av) == RequiredKeys \subseteq DOMAIN av

\* argparse's dest of an option: the name with every - turned into _
Dest(k) ==
  CASE k = "JOB_NAME"       -> "JOB_NAME"
    [] k = "execution-id"   -> "execution_id"
    [] k = "input-bucket"   -> "input_bucket"
    [] k = "input-key"      -> "input_key"
    [] k = "output-bucket"  -> "output_bucket"
    [] k = "output-key"     -> "output_key"
    [] k = "current-stage"  -> "current_stage"
    [] k = "previous-stage" -> "previous_stage"

\* how the awsglue build at hand keys the mapping getResolvedOptions returns:
\* by argparse's dest, as the public library does (vars(namespace)), or by
\* the option names as listed, as the script's lookups assume
KeyNamings == {"dest", "option"}

\* the mapping getResolvedOptions returns for a complete command line
Resolved(av, naming) ==
  IF naming = "option"
    THEN av
    ELSE [d \in {Dest(k) : k \in DOMAIN av} |->
            av[CHOOSE k \in DOMAIN av : Dest(k) = d]]

\* ----------------------------------------------------------------- storage
\* f"s3://{bucket}/{key}"
PathOf(bucket, key) == "s3://" \o bucket \o "/" \o key

Buckets == {"", "b"}
ObjectKeys == {"", "in.json", "out.json"}
Paths == {PathOf(b, k) : b \in Buckets, k \in ObjectKeys}
\* a path without a bucket name addresses nothing
Addressable == {PathOf("b", k) : k \in ObjectKeys}

\* ---------------------------------------------------------------- datasets
Fields == {"candidates", "stage", "Stage"}
FieldValues == {"v1", "v2"}
Null == "<null>"

\* a column name as the engine's default resolver compares it
\* (spark.sql.caseSensitive = false): letter case is ignored
Fold(name) == IF name = "Stage" THEN "stage" ELSE name
SameName(a, b) == Fold(a) = Fold(b)

\* the four metadata columns of the transform
MetadataColumns ==
  {"glue_processing_timestamp", "glue_job_name", "execution_id", "stage"}

\* schema inference orders the fields of the inferred struct by name
ColumnOrder ==
  <<"Stage", "candidates", "execution_id", "glue_job_name",
    "glue_processing_timestamp", "stage">>

\* the objects of the input lines; no single object spells one name twice
JsonRecords ==
  UNION {[S -> FieldValues] :
           S \in {T \in SUBSET Fields :
                    \A a, b \in T : SameName(a, b) => a = b}}
JsonDatasets == UNION {[1..n -> JsonRecords] : n \in 0..MaxRecords}

Absent == [exists |-> FALSE, records |-> <<>>]
Stored(recs) == [exists |-> TRUE, records |-> recs]

\* what a previous run left at the output location
StaleRecord == [f \in {"candidates"} |-> "old"]
PriorObjects == {Absent, Stored(<<StaleRecord>>)}

EmptyFrame == [columns |-> <<>>, rows |-> <<>>]

\* spark.read.json(path): the schema is the union of the records' fields, a
\* record lacking a field reads as null in that column
ReadJson(records) ==
  LET present(c) == \E i \in DOMAIN records : c \in DOMAIN records[i]
      cols == SelectSeq(ColumnOrder, present)
  IN  [columns |-> cols,
       rows |-> [i \in DOMAIN records |->
                   [j \in DOMAIN cols |->
                      IF cols[j] \in DOMAIN records[i]
                        THEN records[i][cols[j]] ELSE Null]]]

\* df.count()
Count(df) == Len(df.rows)

\* name in df.columns: membership in a list of strings, exact
HasColumn(df, name) == \E j \in DOMAIN df.columns : df.columns[j] = name

\* whether the frame has a column the resolver takes for that name
Resolves(df, name) ==
  \E j \in DOMAIN df.columns : SameName(df.columns[j], name)

\* mutant: replacing an existing column overwrites every column of the row
WithColumnClobber(df, name, value) ==
  IF Resolves(df, name)
    THEN [columns |-> [j \in DOMAIN df.columns |->
                         IF SameName(df.columns[j], name)
                           THEN name ELSE df.columns[j]],
          rows |-> [i \in DOMAIN df.rows |->
                      [j \in DOMAIN df.columns |-> value]]]
    ELSE [columns |-> Append(df.columns, name),
          rows |-> [i \in DOMAIN df.rows |-> Append(df.rows[i], value)]]

\* df.withColumn(name, lit(value)): replaces the column the resolver takes
\* for that name if the frame has one, and the column then bears the new
\* name; appends a new column otherwise
WithColumn(df, name, value) ==
  IF Resolves(df, name)
    THEN [columns |-> [j \in DOMAIN df.columns |->
                         IF SameName(df.columns[j], name)
                           THEN name ELSE df.columns[j]],
          rows |-> [i \in DOMAIN df.rows |->
                      [j \in DOMAIN df.columns |->
                         IF SameName(df.columns[j], name)
                           THEN value ELSE df.rows[i][j]]]]
    ELSE [columns |-> Append(df.columns, name),
          rows |-> [i \in DOMAIN df.rows |-> Append(df.rows[i], value)]]

\* mutant: the chain stops before the stage column
AddMetadataNoStage(df, av, ts) ==
  WithColumn(
    WithColumn(
      WithColumn(df, "glue_processing_timestamp", ts),
      "glue_job_name", av["JOB_NAME"]),
    "execution_id", av["execution-id"])

\* the withColumn chain of the transform
AddMetadata(df, av, ts) ==
  WithColumn(
    WithColumn(
      WithColumn(
        WithColumn(df, "glue_processing_timestamp", ts),
        "glue_job_name", av["JOB_NAME"]),
      "execution_id", av["execution-id"]),
    "stage", av["current-stage"])

\* one row as a JSON object: null fields are not written
JsonRecord(columns, row) ==
  [c \in {columns[j] : j \in {k \in DOMAIN columns : row[k] # Null}} |->
     row[CHOOSE j \in DOMAIN columns : columns[j] = c]]

\* the engine gives no ordering guarantee for the rows it writes
Orders(n) == {p \in [1..n -> 1..n] : \A i, j \in 1..n : p[i] = p[j] => i = j}

\* mutant: the last row is not written
WriteJsonDropLast(df, order) ==
  [i \in 1..(Len(df.rows) - 1) |-> JsonRecord(df.columns, df.rows[order[i]])]

\* df.write.json(path): the records written, in the order the engine chose
WriteJson(df, order) ==
  [i \in DOMAIN df.rows |-> JsonRecord(df.columns, df.rows[order[i]])]

\* --------------------------------------------------------------- the run
VARIABLES
  argv,                 \* sys.argv of the invocation
  store,                \* object storage: path -> stored object
  store0,               \* object storage as it was when the run started
  pc,                   \* how far the script has got
  args,                 \* args (NoArgs until resolved)
  session,              \* "none" until SparkContext/GlueContext/Job are set up
  input_df,             \* input_df
  transformed_df,       \* transformed_df
  input_record_count,   \* input_record_count
  output_record_count,  \* output_record_count
  log,                  \* the lines printed so far
  error,                \* the exception that ended the run, "none" if none
  exit_code,            \* -1 while running, 0 after a clean end, 1 after a raise
  initCalls,            \* calls of job.init
  readCalls,            \* calls of spark.read.json
  writeCalls,           \* calls of DataFrameWriter.json
  commitCalls           \* calls of job.commit

vars ==
  <<argv, store, store0, pc, args, session, input_df, transformed_df,
    input_record_count, output_record_count, log, error, exit_code,
    initCalls, readCalls, writeCalls, commitCalls>>

\* one printed line: its fixed text, the interpolated string and number
NoText == "<none>"
NoNum == -1
Line(msg, text, num) == [msg |-> msg, text |-> text, num |-> num]

\* datetime.now().isoformat() / current_timestamp()
Now == "ts"

\* str(e) of the exception an engine or storage call raised
Details(kind) == "details of " \o kind

\* f"s3://{args['input-bucket']}/{args['input-key']}"
input_path == PathOf(args["input-bucket"], args["input-key"])
\* f"s3://{args['output-bucket']}/{args['output-key']}"
output_path == PathOf(args["output-bucket"], args["output-key"])

Init ==
  /\ argv \in Invocations
  /\ \E inObj \in {Absent} \cup {Stored(d) : d \in JsonDatasets},
        outObj \in PriorObjects :
       store = [p \in Paths |->
                  IF p = PathOf("b", "in.json") THEN inObj
                  ELSE IF p = PathOf("b", "out.json") THEN outObj
                  ELSE Absent]
  /\ store0 = store
  /\ pc = "Idle"
  /\ args = NoArgs
  /\ session = "none"
  /\ input_df = EmptyFrame
  /\ transformed_df = EmptyFrame
  /\ input_record_count = NoNum
  /\ output_record_count = NoNum
  /\ log = <<>>
  /\ error = "none"
  /\ exit_code = -1
  /\ initCalls = 0
  /\ readCalls = 0
  /\ writeCalls = 0
  /\ commitCalls = 0

\* mutant: the failed step is left to be attempted again
RaiseRetry(kind) ==
  /\ pc' = pc
  /\ error' = kind
  /\ exit_code' = exit_code

\* an exception leaves the script: the interpreter exits non-zero
Raise(kind) ==
  /\ pc' = "Failed"
  /\ error' = kind
  /\ exit_code' = 1

\* args = getResolvedOptions(sys.argv, [...the eight keys...])
ResolveArgs ==
  /\ pc = "Idle"
  /\ IF ArgsComplete(argv)
       THEN /\ \E naming \in KeyNamings : args' = Resolved(argv, naming)
            /\ pc' = "ArgsResolved"
            /\ UNCHANGED <<error, exit_code>>
       ELSE /\ Raise("ConfigurationError")
            /\ UNCHANGED args
  /\ UNCHANGED <<argv, store, store0, session, input_df, transformed_df,
                 input_record_count, output_record_count, log,
                 initCalls, readCalls, writeCalls, commitCalls>>

\* the lines of the start banner that look a key up in args, in order
BannerKeys == <<"JOB_NAME", "execution-id", "current-stage", "previous-stage">>
BannerHeads == <<"Job Name:", "Execution ID:", "Current Stage:", "Previous Stage:">>

\* the banner's title and its first n lookup lines
BannerUpTo(n) ==
  <<Line("=== Glue Job Started ===", NoText, NoNum)>> \o
  [i \in 1..n |-> Line(BannerHeads[i], args[BannerKeys[i]], NoNum)]

StartBanner == BannerUpTo(4) \o <<Line("Timestamp:", Now, NoNum)>>

\* the banner lines whose key args does not have
BannerMisses == {i \in 1..4 : BannerKeys[i] \notin DOMAIN args}

\* SparkContext(), GlueContext(sc), Job(glueContext), job.init(...), and the
\* start banner, none of it in a try block: the engine may fail to start,
\* job.init may raise, and a lookup of a key args does not have raises
\* KeyError after the lines before it are printed
InitContext ==
  /\ pc = "ArgsResolved"
  /\ session = "none"
  /\ \E outcome \in {"started", "SparkContext", "job.init"} :
       CASE outcome = "SparkContext" ->
              /\ Raise("ContextError")
              /\ UNCHANGED <<session, initCalls, log>>
         [] outcome = "job.init" ->
              /\ initCalls' = initCalls + 1
              /\ Raise("ContextError")
              /\ UNCHANGED <<session, log>>
         [] outcome = "started" ->
              /\ session' = "active"
              /\ initCalls' = initCalls + 1
              /\ IF BannerMisses = {}
                   THEN /\ log' = log \o StartBanner
                        /\ UNCHANGED <<pc, error, exit_code>>
                   ELSE LET first == CHOOSE i \in BannerMisses :
                                       \A j \in BannerMisses : i <= j
                        IN  /\ log' = log \o BannerUpTo(first - 1)
                            /\ Raise("KeyError")
  /\ UNCHANGED <<argv, store, store0, args, input_df, transformed_df,
                 input_record_count, output_record_count,
                 readCalls, writeCalls, commitCalls>>

\* mutant: a missing object reads as an empty dataset
ReadableAlways(st, path) == TRUE

\* the inferred schema would hold two columns the resolver cannot tell apart
AmbiguousSchema(records) ==
  \E i, k \in DOMAIN records :
    \E a \in DOMAIN records[i], b \in DOMAIN records[k] :
      a # b /\ SameName(a, b)

\* whether the engine can read a dataset at the path: the object exists and
\* its schema has no duplicate column
Readable(st, path) ==
  /\ path \in Addressable
  /\ st[path].exists
  /\ ~AmbiguousSchema(st[path].records)

\* df.printSchema(): the tree of the columns, and the line break of print
SchemaLines(df) ==
  <<Line("root", NoText, NoNum)>> \o
  [j \in DOMAIN df.columns |-> Line(" |--", df.columns[j], NoNum)] \o
  <<Line("", NoText, NoNum)>>

\* mutant: the handler re-raises without printing
ReadExceptSilent(printed) ==
  /\ log' = log \o printed
  /\ Raise("InputReadError")

\* except handler of the read, entered after the lines in printed: two
\* lines, then raise
ReadExcept(printed) ==
  /\ log' = log \o printed \o
       <<Line("ERROR: Failed to read input from", input_path, NoNum),
         Line("Error details:", Details("InputReadError"), NoNum)>>
  /\ Raise("InputReadError")

\* print(f"Reading input from: ..."), then the try block of the read:
\* spark.read.json, count, the two log lines, printSchema, each of which
\* may raise; the except handler prints two lines and re-raises
ReadInput ==
  /\ pc = "ArgsResolved"
  /\ session = "active"
  /\ readCalls' = readCalls + 1
  /\ \E fault \in {"none", "read.json", "count", "printSchema"} :
       LET df == ReadJson(store[input_path].records)
           start == <<Line("Reading input from:", input_path, NoNum)>>
           counted == start \o
                        <<Line("Input records:", NoText, Count(df)),
                          Line("Input schema:", NoText, NoNum)>>
       IN  /\ ~Readable(store, input_path) => fault = "read.json"
           /\ CASE fault = "none" ->
                     /\ input_df' = df
                     /\ input_record_count' = Count(df)
                     /\ log' = log \o counted \o SchemaLines(df)
                     /\ pc' = "InputRead"
                     /\ UNCHANGED <<error, exit_code>>
                [] fault = "read.json" ->
                     /\ ReadExcept(start)
                     /\ UNCHANGED <<input_df, input_record_count>>
                [] fault = "count" ->
                     /\ input_df' = df
                     /\ ReadExcept(start)
                     /\ UNCHANGED input_record_count
                [] fault = "printSchema" ->
                     /\ input_df' = df
                     /\ input_record_count' = Count(df)
                     /\ ReadExcept(counted)
  /\ UNCHANGED <<argv, store, store0, args, session, transformed_df,
                 output_record_count, initCalls, writeCalls, commitCalls>>

\* the lines the transform prints before it counts its output
TransformProgress(df) ==
  (IF HasColumn(df, "candidates")
     THEN <<Line("Applying candidate filtering logic...", NoText, NoNum)>>
     ELSE <<>>)
  \o <<Line("Applying data enrichment logic...", NoText, NoNum),
       Line("Applying aggregation logic...", NoText, NoNum)>>

\* except handler of the transform, entered after the lines in printed: two
\* lines, then raise
TransformExcept(printed) ==
  /\ log' = log \o printed \o
       <<Line("ERROR: ETL transformation failed", NoText, NoNum),
         Line("Error details:", Details("TransformError"), NoNum)>>
  /\ Raise("TransformError")

\* print("=== Starting ETL Transformations ==="), then the try block of the
\* transform: the withColumn chain, the placeholder steps, count and the
\* statistics and printSchema; the engine may fail in the chain, in the
\* count or in printSchema
Transform ==
  /\ pc = "InputRead"
  /\ \E fault \in {"none", "withColumn", "count", "printSchema"} :
       LET df == AddMetadata(input_df, args, Now)
           start == <<Line("=== Starting ETL Transformations ===", NoText, NoNum)>>
           stats == <<Line("Output records:", NoText, Count(df)),
                      Line("Records processed:", NoText, input_record_count),
                      Line("Records filtered:", NoText,
                           input_record_count - Count(df)),
                      Line("Output schema:", NoText, NoNum)>>
       IN  CASE fault = "none" ->
                  /\ transformed_df' = df
                  /\ output_record_count' = Count(df)
                  /\ log' = log \o start \o TransformProgress(input_df) \o stats
                                \o SchemaLines(df)
                  /\ pc' = "Transformed"
                  /\ UNCHANGED <<error, exit_code>>
             [] fault = "printSchema" ->
                  /\ transformed_df' = df
                  /\ output_record_count' = Count(df)
                  /\ TransformExcept(start \o TransformProgress(input_df) \o stats)
             [] fault = "withColumn" ->
                  /\ TransformExcept(start)
                  /\ UNCHANGED <<transformed_df, output_record_count>>
             [] fault = "count" ->
                  /\ transformed_df' = df
                  /\ TransformExcept(start \o TransformProgress(input_df))
                  /\ UNCHANGED output_record_count
  /\ UNCHANGED <<argv, store, store0, args, session, input_df,
                 input_record_count, initCalls, readCalls, writeCalls,
                 commitCalls>>

\* mutant: mode('append')
OverwriteAppend(st, path, records) ==
  [st EXCEPT ![path] = Stored(st[path].records \o records)]

\* mode('overwrite'): the object at the path is replaced by the records
\* written, whatever it held
Overwrite(st, path, records) == [st EXCEPT ![path] = Stored(records)]

\* what a failed overwrite may leave at the path: the old object, nothing,
\* or part of the new records
Leftover(st, path, records, how) ==
  CASE how = "stale"     -> st
    [] how = "absent"    -> [st EXCEPT ![path] = Absent]
    [] how = "truncated" ->
         [st EXCEPT ![path] = Stored(SubSeq(records, 1, Len(records) - 1))]

\* whether the overwrite of the path can succeed: the path needs a bucket,
\* and must not be the path the frame is read from (the engine refuses such
\* a write, or deletes the files it has yet to read)
Writable(path, source) == path \in Addressable /\ path # source

\* mutant: the handler prints and does not re-raise
WriteExceptSwallow ==
  /\ log' = log \o
       <<Line("Writing output to:", output_path, NoNum),
         Line("ERROR: Failed to write output to", output_path, NoNum),
         Line("Error details:", Details("OutputWriteError"), NoNum)>>
  /\ pc' = "OutputWritten"
  /\ error' = "OutputWriteError"
  /\ exit_code' = exit_code

\* except handler of the write: two lines, then raise
WriteExcept ==
  /\ log' = log \o
       <<Line("Writing output to:", output_path, NoNum),
         Line("ERROR: Failed to write output to", output_path, NoNum),
         Line("Error details:", Details("OutputWriteError"), NoNum)>>
  /\ Raise("OutputWriteError")

\* print(f"Writing output to: ..."), then the try block of the write:
\* transformed_df.write.mode('overwrite').json(output_path) and the success
\* line; the except handler prints two lines and re-raises
WriteOutput ==
  /\ pc = "Transformed"
  /\ writeCalls' = writeCalls + 1
  /\ \E order \in Orders(Count(transformed_df)),
        outcome \in {"ok", "rejected", "stale", "absent", "truncated"} :
       LET records == WriteJson(transformed_df, order)
       IN  /\ outcome = "ok" => Writable(output_path, input_path)
           /\ outcome = "rejected" => ~Writable(output_path, input_path)
           /\ outcome # "rejected" => output_path \in Addressable
           /\ outcome = "truncated" => Len(records) > 0
           /\ IF outcome = "ok"
                THEN /\ store' = Overwrite(store, output_path, records)
                     /\ log' = log \o
                          <<Line("Writing output to:", output_path, NoNum),
                            Line("Successfully wrote", output_path,
                                 output_record_count)>>
                     /\ pc' = "OutputWritten"
                     /\ UNCHANGED <<error, exit_code>>
                ELSE /\ store' = IF outcome = "rejected" THEN store
                                 ELSE Leftover(store, output_path, records, outcome)
                     /\ WriteExcept
  /\ UNCHANGED <<argv, store0, args, session, input_df, transformed_df,
                 input_record_count, output_record_count,
                 initCalls, readCalls, commitCalls>>

Completion ==
  <<Line("=== Glue Job Completed Successfully ===", NoText, NoNum),
    Line("Execution ID:", args["execution-id"], NoNum),
    Line("Stage:", args["current-stage"], NoNum),
    Line("Input records:", NoText, input_record_count),
    Line("Output records:", NoText, output_record_count),
    Line("Processing time:", Now, NoNum)>>

\* the completion lines and job.commit(), which is in no try block: when it
\* returns the script ends, when it raises the exception leaves the script
Commit ==
  /\ pc = "OutputWritten"
  /\ log' = log \o Completion
  /\ commitCalls' = commitCalls + 1
  /\ \E committed \in BOOLEAN :
       IF committed
         THEN /\ pc' = "Committed"
              /\ exit_code' = 0
              /\ UNCHANGED error
         ELSE Raise("CommitError")
  /\ UNCHANGED <<argv, store, store0, args, session, input_df, transformed_df,
                 input_record_count, output_record_count,
                 initCalls, readCalls, writeCalls>>

Next ==
  \/ ResolveArgs
  \/ InitContext
  \/ ReadInput
  \/ Transform
  \/ WriteOutput
  \/ Commit

Spec == Init /\ [][Next]_vars

\* ------------------------------------------------------------ properties
TypeOK ==
  /\ pc \in {"Idle", "ArgsResolved", "InputRead", "Transformed",
             "OutputWritten", "Committed", "Failed"}
  /\ error \in {"none", "ConfigurationError", "ContextError", "KeyError",
                "InputReadError", "TransformError", "OutputWriteError",
                "CommitError"}
  /\ exit_code \in {-1, 0, 1}
  /\ session \in {"none", "active"}
  /\ DOMAIN store = Paths

\* the multiset of the elements of a sequence
BagOf(seq) ==
  [r \in {seq[i] : i \in DOMAIN seq} |->
     Cardinality({i \in DOMAIN seq : seq[i] = r})]

\* a record restricted to the fields in names
Project(rec, names) == [f \in DOMAIN rec \cap names |-> rec[f]]

Identity(n) == [i \in 1..n |-> i]

\* the write has succeeded
Succeeded == pc \in {"OutputWritten", "Committed"}

\* the records at the input path when the run started, at the output path now
InputRecords == store0[input_path].records
OutputRecords == store[output_path].records

\* the value the transform gives a metadata column
MetadataValue(c) ==
  CASE c = "glue_processing_timestamp" -> Now
    [] c = "glue_job_name"             -> args["JOB_NAME"]
    [] c = "execution_id"              -> args["execution-id"]
    [] c = "stage"                     -> args["current-stage"]

\* the records the run derives from its input, in input order
Derived ==
  WriteJson(AddMetadata(ReadJson(InputRecords), args, Now),
            Identity(Len(InputRecords)))

\* every required key is on the command line
AllPresent(av) == \A k \in RequiredKeys : k \in DOMAIN av

\* no object is stored at the input path when the run starts
InputMissing == ~store0[input_path].exists

\* the exceptions of the steps before the commit
EarlierErrors ==
  {"ConfigurationError", "ContextError", "KeyError", "InputReadError",
   "TransformError", "OutputWriteError"}

\* C1: job.commit is called at most once, and only when the output write has
\* succeeded (the output path holds the records of transformed_df); a run in
\* which an earlier step raised never calls it, and the process exits with
\* status 0 only after the commit.
C1_CommitOnceAfterWrite ==
  /\ commitCalls <= 1
  /\ commitCalls = 1 =>
       /\ pc \in {"Committed", "Failed"}
       /\ error \in {"none", "CommitError"}
       /\ writeCalls = 1
       /\ store[output_path].exists
       /\ BagOf(OutputRecords) =
            BagOf(WriteJson(transformed_df, Identity(Count(transformed_df))))
  /\ error \in EarlierErrors => commitCalls = 0
  /\ exit_code = 0 => commitCalls = 1 /\ pc = "Committed" /\ error = "none"

C1_Witness == commitCalls = 1 /\ pc = "Committed" /\ Len(OutputRecords) = 2

\* C2: when the input object does not exist, the read fails, the run ends in
\* failure (exit code 1, no commit), no write is attempted and the storage is
\* exactly as it was before the run.
C2_MissingInputLeavesOutput ==
  (readCalls = 1 /\ InputMissing) =>
     /\ pc = "Failed"
     /\ error = "InputReadError"
     /\ exit_code = 1
     /\ commitCalls = 0
     /\ writeCalls = 0
     /\ store = store0

C2_Witness ==
  /\ readCalls = 1
  /\ InputMissing
  /\ pc = "Failed"
  /\ store0[output_path].exists

\* C3: when a required key is absent from the invocation, the run is rejected
\* with a configuration error before any I/O: no context initialisation, no
\* read, no write, no commit, storage untouched.
C3_MissingKeyRejectedBeforeIO ==
  ~AllPresent(argv) =>
     /\ pc \in {"Idle", "Failed"}
     /\ pc = "Failed" => error = "ConfigurationError" /\ exit_code = 1
     /\ args = NoArgs
     /\ session = "none"
     /\ initCalls = 0
     /\ readCalls = 0
     /\ writeCalls = 0
     /\ commitCalls = 0
     /\ log = <<>>
     /\ store = store0

C3_Witness ==
  /\ "input-key" \notin DOMAIN argv
  /\ pc = "Failed"
  /\ error = "ConfigurationError"

\* no field of an input record bears a name that the engine takes for the
\* name of a metadata column
NoCollision(records) ==
  \A i \in DOMAIN records :
    \A f \in DOMAIN records[i] : Fold(f) \notin MetadataColumns

\* C4: when no input field name collides with a metadata column name (as the
\* engine compares column names, letter case ignored), a
\* successful run writes as many records as it read, every output record
\* carries the four metadata fields with this run's values, and the multiset
\* of output records projected on their other fields is the multiset of the
\* input records.
C4_RoundTrip ==
  (Succeeded /\ NoCollision(InputRecords)) =>
     /\ Len(OutputRecords) = Len(InputRecords)
     /\ \A i \in DOMAIN OutputRecords :
          /\ MetadataColumns \subseteq DOMAIN OutputRecords[i]
          /\ \A c \in MetadataColumns : OutputRecords[i][c] = MetadataValue(c)
     /\ BagOf([i \in DOMAIN OutputRecords |->
                 Project(OutputRecords[i],
                         DOMAIN OutputRecords[i] \ MetadataColumns)])
          = BagOf(InputRecords)

C4_Witness ==
  /\ Succeeded
  /\ NoCollision(InputRecords)
  /\ Len(InputRecords) = 2
  /\ DOMAIN InputRecords[1] = {"candidates"}
  /\ DOMAIN InputRecords[2] = {"candidates"}
  /\ InputRecords[1]["candidates"] # InputRecords[2]["candidates"]
  /\ OutputRecords[1]["candidates"] = InputRecords[2]["candidates"]

\* every field of the input record is in the output record, same value
KeepsAll(in, out) ==
  \A f \in DOMAIN in : f \in DOMAIN out /\ out[f] = in[f]

\* a field of the input record whose name the engine does not take for a
\* metadata column name is in the output record with the same name and
\* value; a field whose name it does take for one is replaced by the metadata
\* column: the output record has the metadata name with the metadata value,
\* and no field under the input's spelling when that differs
KeepsOrReplaces(in, out) ==
  \A f \in DOMAIN in :
    IF Fold(f) \in MetadataColumns
      THEN /\ Fold(f) \in DOMAIN out
           /\ out[Fold(f)] = MetadataValue(Fold(f))
           /\ f # Fold(f) => f \notin DOMAIN out
      ELSE /\ f \in DOMAIN out
           /\ out[f] = in[f]

\* C5 as stated: after a successful run every field of every input record is
\* in the corresponding output record with the same name and value, whatever
\* the field names.
C5_Original ==
  Succeeded =>
     /\ Len(OutputRecords) = Len(InputRecords)
     /\ \E order \in Orders(Len(InputRecords)) :
          \A i \in DOMAIN OutputRecords :
            KeepsAll(InputRecords[order[i]], OutputRecords[i])

\* C5 amended: after a successful run the output has one record per input
\* record, and every field of an input record whose name differs, letter case
\* ignored, from the four metadata column names is in the corresponding output
\* record with the same name and value; a field whose name equals a metadata
\* column name, letter case ignored, is replaced by that metadata column: the
\* output record has the metadata name with this run's metadata value, and no
\* field under the input's spelling when that differs.
C5_FieldsKeptOrReplaced ==
  Succeeded =>
     /\ Len(OutputRecords) = Len(InputRecords)
     /\ \E order \in Orders(Len(InputRecords)) :
          \A i \in DOMAIN OutputRecords :
            KeepsOrReplaces(InputRecords[order[i]], OutputRecords[i])

C5_Witness ==
  /\ Succeeded
  /\ Len(InputRecords) = 2
  /\ DOMAIN InputRecords[1] = {"candidates", "Stage"}
  /\ DOMAIN InputRecords[2] = {"candidates"}
  /\ InputRecords[1]["Stage"] # args["current-stage"]
  /\ \E i \in DOMAIN OutputRecords :
       /\ "Stage" \notin DOMAIN OutputRecords[i]
       /\ OutputRecords[i]["stage"] = args["current-stage"]
       /\ OutputRecords[i]["candidates"] = InputRecords[1]["candidates"]

\* C6: after a successful run the output path holds exactly the records
\* derived from this run's input, whatever it held before; every other path
\* is as it was.
C6_Overwrite ==
  Succeeded =>
     /\ store[output_path].exists
     /\ BagOf(OutputRecords) = BagOf(Derived)
     /\ \A p \in Paths \ {output_path} : store[p] = store0[p]

C6_Witness ==
  /\ Succeeded
  /\ store0[output_path].exists
  /\ Len(store0[output_path].records) > 0
  /\ Len(OutputRecords) = 2

\* the numbers logged under a heading
Logged(msg) == {log[i].num : i \in {j \in DOMAIN log : log[j].msg = msg}}

\* C7: after a successful run the logged "Input records" value is the number
\* of records of the input dataset, the logged "Output records" value is the
\* number of records written, and the logged "Records filtered" value is
\* their difference, which is zero.
C7_LoggedCounts ==
  pc = "Committed" =>
     /\ Logged("Input records:") = {Len(InputRecords)}
     /\ Logged("Output records:") = {Len(OutputRecords)}
     /\ Logged("Records filtered:") = {Len(InputRecords) - Len(OutputRecords)}
     /\ Logged("Records filtered:") = {0}

C7_Witness ==
  /\ pc = "Committed"
  /\ Len(InputRecords) = 2
  /\ Logged("Output records:") = {2}

\* the lines an except handler printed
ErrorLines ==
  {i \in DOMAIN log :
     log[i].msg \in {"ERROR: Failed to read input from",
                     "ERROR: ETL transformation failed",
                     "ERROR: Failed to write output to",
                     "Error details:"}}

ErrorLineWith(text) == \E i \in ErrorLines : log[i].text = text

\* the last two lines printed
LastLines == SubSeq(log, Len(log) - 1, Len(log))

\* C8 as stated: whatever step failed, the handler has logged the failure
\* with the affected path, the stage name and the execution id before the
\* error ends the run.
C8_Original ==
  pc = "Failed" =>
     /\ error # "none"
     /\ exit_code = 1
     /\ ErrorLines # {}
     /\ \E p \in Paths : ErrorLineWith(p)
     /\ AllPresent(argv) =>
          /\ ErrorLineWith(argv["current-stage"])
          /\ ErrorLineWith(argv["execution-id"])

\* C8 amended: no error is swallowed (a step that raised ends the run in
\* failure with exit code 1, and nothing is committed after it).  A failure
\* of the read, the transform or the write is logged before it propagates,
\* by an ERROR line followed by an error-details line; the ERROR line names
\* the path for the read and the write and names nothing for the transform;
\* it carries neither the stage name nor the execution id.  A failure
\* outside the three try blocks (argument resolution, context
\* initialisation, a failed lookup in args, job.commit) propagates without
\* any ERROR line being printed.
C8_LoggedThenRaised ==
  /\ error # "none" <=> pc = "Failed"
  /\ pc = "Failed" =>
       /\ exit_code = 1
       /\ error # "CommitError" => commitCalls = 0
       /\ CASE error \in {"ConfigurationError", "ContextError"} -> log = <<>>
            [] error \in {"KeyError", "CommitError"} -> ErrorLines = {}
            [] error = "InputReadError" ->
                 LastLines =
                   <<Line("ERROR: Failed to read input from", input_path, NoNum),
                     Line("Error details:", Details(error), NoNum)>>
            [] error = "TransformError" ->
                 LastLines =
                   <<Line("ERROR: ETL transformation failed", NoText, NoNum),
                     Line("Error details:", Details(error), NoNum)>>
            [] error = "OutputWriteError" ->
                 LastLines =
                   <<Line("ERROR: Failed to write output to", output_path, NoNum),
                     Line("Error details:", Details(error), NoNum)>>

C8_Witness ==
  /\ pc = "Failed"
  /\ error = "InputReadError"
  /\ ErrorLineWith(input_path)
  /\ ~ErrorLineWith(args["current-stage"])

\* some required key is on the command line with the empty string as value
SomeEmpty(av) == \E k \in DOMAIN av : av[k] = ""

\* C9 as stated: an invocation that gives a required key the empty string is
\* rejected with a configuration error and goes no further: no context
\* initialisation, read, write or commit.
C9_Original ==
  (AllPresent(argv) /\ SomeEmpty(argv)) =>
     /\ pc = "Failed" => error = "ConfigurationError"
     /\ initCalls = 0
     /\ readCalls = 0
     /\ writeCalls = 0
     /\ commitCalls = 0

\* C9 amended: all eight keys must be present, and absence is the only
\* configuration error: argument resolution fails exactly when a required
\* key is absent; a key present with the empty string as value is accepted
\* with that value, and where the run goes on to read, it reads from the
\* path built of the literal values.
C9_PresentKeysAccepted ==
  /\ pc # "Idle" => (error = "ConfigurationError" <=> ~AllPresent(argv))
  /\ (pc # "Idle" /\ AllPresent(argv)) =>
       \E naming \in KeyNamings : args = Resolved(argv, naming)
  /\ readCalls = 1 =>
       log[7] = Line("Reading input from:",
                     PathOf(argv["input-bucket"], argv["input-key"]), NoNum)

C9_Witness ==
  /\ AllPresent(argv)
  /\ argv["input-key"] = ""
  /\ readCalls = 1
  /\ error = "InputReadError"

\* the order of the states of a run
StateOrder ==
  {<<"Idle", "ArgsResolved">>, <<"ArgsResolved", "InputRead">>,
   <<"InputRead", "Transformed">>, <<"Transformed", "OutputWritten">>,
   <<"OutputWritten", "Committed">>}

\* C10: the run changes state only to the next state of the order Idle,
\* ArgsResolved, InputRead, Transformed, OutputWritten, Committed, or, when
\* a step raises, to Failed; each step is attempted at most once; nothing
\* happens after Failed or Committed.
C10_StateOrder ==
  [][/\ pc' # pc =>
          \/ <<pc, pc'>> \in StateOrder
          \/ pc \notin {"Committed", "Failed"} /\ pc' = "Failed" /\ error' # "none"
     /\ error' # "none" => pc' = "Failed"
     /\ pc \in {"Committed", "Failed"} => UNCHANGED vars
     /\ initCalls' <= 1 /\ readCalls' <= 1 /\ writeCalls' <= 1 /\ commitCalls' <= 1
     /\ pc' \in {"Idle", "ArgsResolved"} => readCalls' = 0 /\ writeCalls' = 0
     /\ pc' = "InputRead" => readCalls' = 1 /\ writeCalls' = 0
     /\ pc' = "Transformed" => readCalls' = 1 /\ writeCalls' = 0
     /\ pc' = "OutputWritten" => writeCalls' = 1 /\ commitCalls' = 0
     /\ pc' = "Committed" => writeCalls' = 1 /\ commitCalls' = 1
    ]_vars

C10_Witness ==
  /\ pc = "Committed"
  /\ initCalls = 1 /\ readCalls = 1 /\ writeCalls = 1 /\ commitCalls = 1

====
